---- MODULE Spec2Model ----
(***************************************************************************)
(* BookIt: the bookings edge function (createBooking), the promo-validate  *)
(* edge function (validatePromo) and the store they run against (tables    *)
(* experiences, slots, bookings, promo_codes with their constraints).      *)
(*                                                                         *)
(* Every createBooking request is an independent invocation; its steps are *)
(* the statements of the handler between two awaits on the store, so the   *)
(* store calls of different requests interleave freely.                    *)
(*                                                                         *)
(* Values.  A JSON field or a nullable column that may be absent is a      *)
(* sequence: <<>> is undefined/NULL, <<v>> is the value v.  An absent      *)
(* string is "".  A promo code is the sequence of its characters, so that  *)
(* toUpperCase acts on it.  Money is an integer; the amounts drawn are     *)
(* such that amount * discount_value is a multiple of 100, so the          *)
(* percentage discount is an integer as well.  Time is an integer.         *)
(***************************************************************************)
EXTENDS Integers, Sequences, FiniteSets, TLC

VARIABLES
    slots,        \* table slots: id -> [experience_id, capacity, booked]
    bookings,     \* table bookings: the set of rows
    req,          \* createBooking invocations: id -> [pc, body, slot, bookingReference,
                  \*                                   inserts, response]
    promo_codes,  \* table promo_codes: the set of rows
    now,          \* the clock read by new Date()
    pv,           \* the promo-validate invocation: [pc, code, amount, response]
    ui            \* the browser: the state of the details and checkout pages

vars == <<slots, bookings, req, promo_codes, now, pv, ui>>

\* Number of createBooking invocations.
NumReqs == 3

\* Number of createBooking invocations of a one-at-a-time run.
NumSeq == 2

\* Number of createBooking requests of the runs in which store calls may fail.
NumFault == 2

\* Largest guest count the + button is clicked up to while no slot is selected.
MaxGuests == 3

\* Largest clock value.
MaxNow == 2

Reqs == 1..NumReqs

Times == 0..MaxNow

----------------------------------------------------------------------------
(* JavaScript helpers *)

Null == <<>>

Some(v) == <<v>>

\* !x for an optional number: undefined, null and 0 are falsy.
Falsy(x) == x = Null \/ x[1] = 0

\* !s for a string.
FalsyStr(s) == s = ""

Min(a, b) == IF a < b THEN a ELSE b

----------------------------------------------------------------------------
(* Table experiences *)

ExperienceIds == {"e1", "e2"}

experiences == [e \in ExperienceIds |-> [price |-> IF e = "e1" THEN 100 ELSE 150]]

----------------------------------------------------------------------------
(* Table slots *)

SlotIds == {"s1", "s2"}

\* The slots as seeded: s1 is empty, s2 (capacity 10, the column default) has one spot left.
InitSlots ==
    [s \in SlotIds |->
        IF s = "s1" THEN [experience_id |-> "e1", capacity |-> 2, booked |-> 0]
                    ELSE [experience_id |-> "e2", capacity |-> 10, booked |-> 9]]

\* CONSTRAINT valid_capacity CHECK (capacity > 0)
valid_capacity(row) == row.capacity > 0

\* CONSTRAINT valid_booked CHECK (booked >= 0 AND booked <= capacity)
valid_booked(row) == row.booked >= 0 /\ row.booked <= row.capacity

NoSlot == [id |-> "", experience_id |-> "", capacity |-> 0, booked |-> 0]

\* The select answering a default row for an id of no row.
SelectSlotOrDefault(tbl, slotId) ==
    IF slotId \in DOMAIN tbl
    THEN {[id |-> slotId, experience_id |-> tbl[slotId].experience_id,
           capacity |-> tbl[slotId].capacity, booked |-> tbl[slotId].booked]}
    ELSE {[id |-> slotId, experience_id |-> "", capacity |-> 10, booked |-> 0]}

\* supabase.from('slots').select('*').eq('id', slotId).single(): the rows found.
SelectSlot(tbl, slotId) ==
    IF slotId \in DOMAIN tbl
    THEN {[id |-> slotId, experience_id |-> tbl[slotId].experience_id,
           capacity |-> tbl[slotId].capacity, booked |-> tbl[slotId].booked]}
    ELSE {}

----------------------------------------------------------------------------
(* Booking references *)

chars == <<"A","B","C","D","E","F","G","H","I","J","K","L","M","N","O","P","Q","R",
           "S","T","U","V","W","X","Y","Z","0","1","2","3","4","5","6","7","8","9">>

RefLength == 8

\* The values of Math.floor(Math.random() * chars.length) the model draws.
RandomIndexes == {0, 25, 35}

\* The sequences of eight draws the model considers: the same draw eight times.
RefDraws == {[i \in 1..RefLength |-> k] : k \in RandomIndexes}

\* generateBookingReference(), given the eight random indexes it draws.
generateBookingReference(draws) ==
    <<"B", "K">> \o [i \in 1..RefLength |-> chars[draws[i] + 1]]

----------------------------------------------------------------------------
(* Table promo_codes and the promo-validate function *)

lowers == <<"a","b","c","d","e","f","g","h","i","j","k","l","m","n","o","p","q","r",
            "s","t","u","v","w","x","y","z">>

\* String.prototype.toUpperCase on a sequence of characters.
toUpperCase(s) ==
    [i \in 1..Len(s) |->
        IF \E k \in 1..Len(lowers) : lowers[k] = s[i]
        THEN chars[CHOOSE k \in 1..Len(lowers) : lowers[k] = s[i]]
        ELSE s[i]]

NoCode == <<>>

SAVE10 == <<"S","A","V","E","1","0">>

save10 == <<"s","a","v","e","1","0">>

FLAT100 == <<"F","L","A","T","1","0","0">>

BOGUS == <<"B","O","G","U","S">>

\* The two rows the migration inserts; valid_from defaults to the time of the insert.
SeedPromos ==
    { [code |-> SAVE10, discount_type |-> "percentage", discount_value |-> 10,
       min_amount |-> Some(50), max_discount |-> Null,
       valid_from |-> 0, valid_until |-> MaxNow, is_active |-> TRUE],
      [code |-> FLAT100, discount_type |-> "fixed", discount_value |-> 100,
       min_amount |-> Some(200), max_discount |-> Some(100),
       valid_from |-> 0, valid_until |-> MaxNow, is_active |-> TRUE] }

\* CONSTRAINT valid_discount_type CHECK (discount_type IN ('percentage', 'fixed'))
valid_discount_type(row) == row.discount_type \in {"percentage", "fixed"}

\* Rows the table admits: its columns carry no check on the sign of
\* discount_value, min_amount or max_discount.
PromoRows ==
    { p \in [code           : {SAVE10, save10},
             discount_type  : {"percentage", "fixed"},
             discount_value : {-10, 10, 100, 500},
             min_amount     : {Null, Some(0), Some(200)},
             max_discount   : {Null, Some(0), Some(5), Some(100), Some(-5)},
             valid_from     : {0, 1},
             valid_until    : {1},
             is_active      : BOOLEAN] : valid_discount_type(p) }

\* The amounts sent to promo-validate.
Amounts == {Null} \cup {Some(a) : a \in {-100, 0, 100, 150, 200, 300}}

\* The codes sent to promo-validate.
Codes == {NoCode, SAVE10, save10, FLAT100, BOGUS}

PromoResponse(status, valid, discount, finalAmount, error, errorValue) ==
    [status |-> status, valid |-> valid, discount |-> discount,
     finalAmount |-> finalAmount, error |-> error, errorValue |-> errorValue]

\* .from('promo_codes').select('*').eq('code', code.toUpperCase()).eq('is_active', true)
SelectPromo(tbl, code) == {p \in tbl : p.code = toUpperCase(code) /\ p.is_active}

\* The discount calculation with max_discount applied to fixed promos as well.
calculateDiscountCapsFixed(promo, amount) ==
    LET discountAmount == IF promo.discount_type = "percentage"
                          THEN (amount * promo.discount_value) \div 100
                          ELSE promo.discount_value IN
    IF ~Falsy(promo.max_discount) /\ discountAmount > promo.max_discount[1]
    THEN promo.max_discount[1]
    ELSE discountAmount

\* The discount calculation, before the limit to the amount.
calculateDiscount(promo, amount) ==
    IF promo.discount_type = "percentage"
    THEN LET discountAmount == (amount * promo.discount_value) \div 100 IN
         IF ~Falsy(promo.max_discount) /\ discountAmount > promo.max_discount[1]
         THEN promo.max_discount[1]
         ELSE discountAmount
    ELSE IF promo.discount_type = "fixed"
    THEN promo.discount_value
    ELSE 0

\* The discount without the limit to the amount.
limitDiscountMissing(discountAmount, amount) == discountAmount

\* Math.min(discountAmount, amount)
limitDiscount(discountAmount, amount) == Min(discountAmount, amount)

\* The handler with the minimum-amount check placed before the date check.
validatePromoMinimumFirst(tbl, t, code, amount) ==
    IF code = NoCode \/ Falsy(amount)
    THEN PromoResponse(400, Null, Null, Null, "Code and amount are required", Null)
    ELSE LET found == SelectPromo(tbl, code) IN
    IF Cardinality(found) # 1
    THEN PromoResponse(200, Some(FALSE), Null, Null, "Invalid promo code", Null)
    ELSE LET promo == CHOOSE p \in found : TRUE IN
    IF ~Falsy(promo.min_amount) /\ amount[1] < promo.min_amount[1]
    THEN PromoResponse(200, Some(FALSE), Null, Null,
                       "Minimum purchase of $ required", promo.min_amount)
    ELSE IF t < promo.valid_from \/ t > promo.valid_until
    THEN PromoResponse(200, Some(FALSE), Null, Null, "Promo code has expired", Null)
    ELSE LET discountAmount == limitDiscount(calculateDiscount(promo, amount[1]), amount[1]) IN
         PromoResponse(200, Some(TRUE), Some(discountAmount),
                       Some(amount[1] - discountAmount), "", Null)

\* The response of the promo-validate handler to POST {code, amount} at time t.
validatePromo(tbl, t, code, amount) ==
    IF code = NoCode \/ Falsy(amount)
    THEN PromoResponse(400, Null, Null, Null, "Code and amount are required", Null)
    ELSE LET found == SelectPromo(tbl, code) IN
    IF Cardinality(found) # 1
    THEN PromoResponse(200, Some(FALSE), Null, Null, "Invalid promo code", Null)
    ELSE LET promo == CHOOSE p \in found : TRUE IN
    IF t < promo.valid_from \/ t > promo.valid_until
    THEN PromoResponse(200, Some(FALSE), Null, Null, "Promo code has expired", Null)
    ELSE IF ~Falsy(promo.min_amount) /\ amount[1] < promo.min_amount[1]
    THEN PromoResponse(200, Some(FALSE), Null, Null,
                       "Minimum purchase of $ required", promo.min_amount)
    ELSE LET discountAmount == limitDiscount(calculateDiscount(promo, amount[1]), amount[1]) IN
         PromoResponse(200, Some(TRUE), Some(discountAmount),
                       Some(amount[1] - discountAmount), "", Null)

IdlePv == [pc |-> "idle", code |-> NoCode, amount |-> Null,
           response |-> PromoResponse(0, Null, Null, Null, "", Null)]

\* One promo-validate request, answered.
PromoValidate(code, amount) ==
    /\ pv.pc = "idle"
    /\ pv' = [pc |-> "done", code |-> code, amount |-> amount,
              response |-> validatePromo(promo_codes, now, code, amount)]
    /\ UNCHANGED <<slots, bookings, req, promo_codes, now, ui>>

----------------------------------------------------------------------------
(* Table bookings *)

\* CONSTRAINT valid_guests CHECK (num_guests > 0)
valid_guests(row) == row.num_guests > 0

\* CONSTRAINT valid_status CHECK (status IN ('pending', 'confirmed', 'cancelled'))
valid_status(row) == row.status \in {"pending", "confirmed", "cancelled"}

\* The number a JSON body field inserts: only read where the field is present.
Val(x) == IF x = Null THEN 0 ELSE x[1]

\* BookingRow with status 'pending'.
BookingRowPending(id, body, bookingReference) ==
    [id                |-> id,
     experience_id     |-> body.experienceId,
     slot_id           |-> body.slotId,
     customer_name     |-> body.customerName,
     customer_email    |-> body.customerEmail,
     customer_phone    |-> body.customerPhone,
     num_guests        |-> Val(body.numGuests),
     base_amount       |-> body.baseAmount,
     discount_amount   |-> IF Falsy(body.discountAmount) THEN 0 ELSE body.discountAmount[1],
     final_amount      |-> body.finalAmount,
     promo_code        |-> body.promoCode,
     status            |-> "pending",
     booking_reference |-> bookingReference]

\* The object handed to supabase.from('bookings').insert(...).
BookingRow(id, body, bookingReference) ==
    [id                |-> id,
     experience_id     |-> body.experienceId,
     slot_id           |-> body.slotId,
     customer_name     |-> body.customerName,
     customer_email    |-> body.customerEmail,
     customer_phone    |-> body.customerPhone,
     num_guests        |-> Val(body.numGuests),
     base_amount       |-> body.baseAmount,
     discount_amount   |-> IF Falsy(body.discountAmount) THEN 0 ELSE body.discountAmount[1],
     final_amount      |-> body.finalAmount,
     promo_code        |-> body.promoCode,
     status            |-> "confirmed",
     booking_reference |-> bookingReference]

\* InsertError on a table whose booking_reference lacks the UNIQUE constraint.
InsertErrorNoUnique(tbl, slotTbl, row) ==
    IF row.base_amount = Null \/ row.final_amount = Null
        THEN "null value violates not-null constraint"
    ELSE IF ~valid_guests(row) \/ ~valid_status(row)
        THEN "new row violates check constraint"
    ELSE IF row.experience_id \notin ExperienceIds \/ row.slot_id \notin DOMAIN slotTbl
        THEN "insert violates foreign key constraint"
    ELSE ""

\* The store's verdict on an insert into bookings: "" when the row is accepted,
\* else the constraint that rejects it (NOT NULL, CHECK, UNIQUE, FOREIGN KEY).
InsertError(tbl, slotTbl, row) ==
    IF row.base_amount = Null \/ row.final_amount = Null
        THEN "null value violates not-null constraint"
    ELSE IF ~valid_guests(row) \/ ~valid_status(row)
        THEN "new row violates check constraint"
    ELSE IF \E b \in tbl : b.booking_reference = row.booking_reference
        THEN "duplicate key value violates unique constraint"
    ELSE IF row.experience_id \notin ExperienceIds \/ row.slot_id \notin DOMAIN slotTbl
        THEN "insert violates foreign key constraint"
    ELSE ""

\* The store's verdict on update({booked}).eq('id', slotId): "" when accepted.
UpdateError(slotTbl, slotId, booked) ==
    IF slotId \in DOMAIN slotTbl /\ ~valid_booked([slotTbl[slotId] EXCEPT !.booked = booked])
        THEN "new row violates check constraint valid_booked"
    ELSE ""

----------------------------------------------------------------------------
(* createBooking requests *)

\* What the checkout page submits for n guests on slot s, with the promo code and
\* the discount it holds.
ClientBody(s, n, promo, discount) ==
    [experienceId   |-> InitSlots[s].experience_id,
     slotId         |-> s,
     customerName   |-> "Ann",
     customerEmail  |-> "ann@example.com",
     customerPhone  |-> "5550100100",
     numGuests      |-> Some(n),
     baseAmount     |-> Some(experiences[InitSlots[s].experience_id].price * n),
     discountAmount |-> Some(discount),
     finalAmount    |-> Some(experiences[InitSlots[s].experience_id].price * n - discount),
     promoCode      |-> promo]

\* The request bodies of the concurrent runs.
ConcurrentBodies ==
    { ClientBody("s1", 1, NoCode, 0),
      ClientBody("s1", 2, NoCode, 0),
      [ClientBody("s1", 1, NoCode, 0) EXCEPT !.numGuests = Some(-1)] }

\* Further bodies of the one-at-a-time runs: the slot with one spot left, a slot id of no row.
OtherSlotBodies ==
    { ClientBody("s2", 1, NoCode, 0),
      [ClientBody("s1", 1, NoCode, 0) EXCEPT !.slotId = "s9"] }

\* Bodies no checkout page sends: fields left out, ids of no row, amounts and promo
\* codes of the sender's choosing.
CraftedBodies ==
    LET b == ClientBody("s1", 1, NoCode, 0) IN
    { [b EXCEPT !.experienceId = ""],
      [b EXCEPT !.slotId = ""],
      [b EXCEPT !.customerName = ""],
      [b EXCEPT !.customerEmail = ""],
      [b EXCEPT !.customerPhone = ""],
      [b EXCEPT !.numGuests = Null],
      [b EXCEPT !.numGuests = Some(0)],
      [b EXCEPT !.experienceId = "e9"],
      [b EXCEPT !.experienceId = "e2"],
      [b EXCEPT !.baseAmount = Null],
      [b EXCEPT !.baseAmount = Some(1), !.finalAmount = Some(1)],
      [b EXCEPT !.discountAmount = Null],
      [b EXCEPT !.discountAmount = Some(500), !.finalAmount = Some(-400)],
      [b EXCEPT !.finalAmount = Some(0)],
      [b EXCEPT !.promoCode = BOGUS, !.discountAmount = Some(50), !.finalAmount = Some(50)],
      ClientBody("s1", 1, FLAT100, 100) }

\* Bodies of a checkout that applied a promo code the validator accepted.
PromoBodies ==
    { ClientBody("s1", 1, SAVE10, 10),
      ClientBody("s1", 2, FLAT100, 100) }

Bodies == ConcurrentBodies \cup OtherSlotBodies \cup CraftedBodies \cup PromoBodies

NoBody == [ClientBody("s1", 1, NoCode, 0) EXCEPT !.experienceId = "", !.slotId = ""]

\* errorValue is the number the error message carries: the handler's messages
\* are fixed strings (or the store's error.message) and carry none.
NoResponse == [status |-> 0, error |-> "", errorValue |-> Null, data |-> {}]

Response(status, error, data) ==
    [status |-> status, error |-> error, errorValue |-> Null, data |-> data]

IdleReq ==
    [pc |-> "idle", body |-> NoBody, slot |-> NoSlot,
     bookingReference |-> <<>>, inserts |-> 0, response |-> NoResponse]

\* if (!experienceId || !slotId || !customerName || !customerEmail || !customerPhone || !numGuests)
MissingRequiredFields(body) ==
    \/ FalsyStr(body.experienceId)
    \/ FalsyStr(body.slotId)
    \/ FalsyStr(body.customerName)
    \/ FalsyStr(body.customerEmail)
    \/ FalsyStr(body.customerPhone)
    \/ Falsy(body.numGuests)

\* The capacity check off by one: >= for >.
NotEnoughCapacityOffByOne(slot, numGuests) == slot.booked + numGuests >= slot.capacity

\* if (slot.booked + numGuests > slot.capacity)
NotEnoughCapacity(slot, numGuests) == slot.booked + numGuests > slot.capacity

\* { booked: slot.booked + numGuests }
NewBooked(slot, numGuests) == slot.booked + numGuests

\* The handler from req.json() to the required-field validation.
Start(r, body) ==
    /\ req[r].pc = "idle"
    /\ \A q \in Reqs : q < r => req[q].pc # "idle"
    /\ req' = [req EXCEPT ![r] =
                 IF MissingRequiredFields(body)
                 THEN [@ EXCEPT !.pc = "done", !.body = body,
                                !.response = Response(400, "Missing required fields", {})]
                 ELSE [@ EXCEPT !.pc = "select", !.body = body]]
    /\ UNCHANGED <<slots, bookings, promo_codes, now, pv, ui>>

\* ReadSlot reserving the remaining spots before it rejects for capacity.
ReadSlotPartialReserve(r) ==
    /\ req[r].pc = "select"
    /\ LET found == SelectSlot(slots, req[r].body.slotId) IN
       IF found = {}
       THEN /\ req' = [req EXCEPT ![r].pc = "done",
                                  ![r].response = Response(404, "Slot not found", {})]
            /\ UNCHANGED slots
       ELSE LET slot == CHOOSE s \in found : TRUE IN
            IF NotEnoughCapacity(slot, Val(req[r].body.numGuests))
            THEN /\ req' = [req EXCEPT ![r].pc = "done", ![r].slot = slot,
                                       ![r].response =
                                           Response(400, "Not enough capacity available", {})]
                 /\ slots' = [slots EXCEPT ![slot.id].booked = slot.capacity]
            ELSE /\ \E draws \in RefDraws :
                       req' = [req EXCEPT ![r].pc = "insert", ![r].slot = slot,
                                          ![r].bookingReference = generateBookingReference(draws)]
                 /\ UNCHANGED slots
    /\ UNCHANGED <<bookings, promo_codes, now, pv, ui>>

\* ReadSlot without the return in the capacity check: the rejection is written
\* and the handler goes on to the insert.
ReadSlotNoReturn(r) ==
    /\ req[r].pc = "select"
    /\ LET found == SelectSlot(slots, req[r].body.slotId) IN
       IF found = {}
       THEN req' = [req EXCEPT ![r].pc = "done",
                               ![r].response = Response(404, "Slot not found", {})]
       ELSE LET slot == CHOOSE s \in found : TRUE IN
            \E draws \in RefDraws :
                req' = [req EXCEPT ![r].pc = "insert", ![r].slot = slot,
                                   ![r].bookingReference = generateBookingReference(draws),
                                   ![r].response =
                                       IF NotEnoughCapacity(slot, Val(req[r].body.numGuests))
                                       THEN Response(400, "Not enough capacity available", {})
                                       ELSE @]
    /\ UNCHANGED <<slots, bookings, promo_codes, now, pv, ui>>

\* The slot select, the slot-not-found and capacity checks, and the reference.
ReadSlot(r) ==
    /\ req[r].pc = "select"
    /\ LET found == SelectSlot(slots, req[r].body.slotId) IN
       IF found = {}
       THEN req' = [req EXCEPT ![r].pc = "done",
                               ![r].response = Response(404, "Slot not found", {})]
       ELSE LET slot == CHOOSE s \in found : TRUE IN
            IF NotEnoughCapacity(slot, Val(req[r].body.numGuests))
            THEN req' = [req EXCEPT ![r].pc = "done", ![r].slot = slot,
                                    ![r].response =
                                        Response(400, "Not enough capacity available", {})]
            ELSE \E draws \in RefDraws :
                    req' = [req EXCEPT ![r].pc = "insert", ![r].slot = slot,
                                       ![r].bookingReference = generateBookingReference(draws)]
    /\ UNCHANGED <<slots, bookings, promo_codes, now, pv, ui>>

\* InsertBooking without the throw: a store error is ignored and the handler
\* goes on to the update.
InsertBookingIgnoresError(r) ==
    /\ req[r].pc = "insert"
    /\ LET row == BookingRow(r, req[r].body, req[r].bookingReference)
           err == InsertError(bookings, slots, row) IN
       IF err # ""
       THEN /\ req' = [req EXCEPT ![r].pc = "update", ![r].inserts = @ + 1]
            /\ UNCHANGED bookings
       ELSE /\ bookings' = bookings \cup {row}
            /\ req' = [req EXCEPT ![r].pc = "update", ![r].inserts = @ + 1,
                                  ![r].response = Response(0, "", {row})]
    /\ UNCHANGED <<slots, promo_codes, now, pv, ui>>

\* The bookings insert; a store error is thrown and answered by the catch block.
InsertBooking(r) ==
    /\ req[r].pc = "insert"
    /\ LET row == BookingRow(r, req[r].body, req[r].bookingReference)
           err == InsertError(bookings, slots, row) IN
       IF err # ""
       THEN /\ req' = [req EXCEPT ![r].pc = "done", ![r].inserts = @ + 1,
                                  ![r].response = Response(500, err, {})]
            /\ UNCHANGED bookings
       ELSE /\ bookings' = bookings \cup {row}
            /\ req' = [req EXCEPT ![r].pc = "update", ![r].inserts = @ + 1,
                                  ![r].response = Response(0, "", {row})]
    /\ UNCHANGED <<slots, promo_codes, now, pv, ui>>

\* UpdateSlot as a bare increment of the stored value, on a table without valid_booked.
UpdateSlotIncrement(r) ==
    /\ req[r].pc = "update"
    /\ slots' = [slots EXCEPT ![req[r].body.slotId].booked = @ + Val(req[r].body.numGuests)]
    /\ req' = [req EXCEPT ![r].pc = "done",
                          ![r].response = Response(200, "", req[r].response.data)]
    /\ UNCHANGED <<bookings, promo_codes, now, pv, ui>>

\* The slots update and the success response.
UpdateSlot(r) ==
    /\ req[r].pc = "update"
    /\ LET slotId == req[r].body.slotId
           booked == NewBooked(req[r].slot, Val(req[r].body.numGuests))
           err    == UpdateError(slots, slotId, booked) IN
       IF err # ""
       THEN /\ req' = [req EXCEPT ![r].pc = "done", ![r].response = Response(500, err, {})]
            /\ UNCHANGED slots
       ELSE /\ slots' = [slots EXCEPT ![slotId].booked = booked]
            /\ req' = [req EXCEPT ![r].pc = "done",
                                  ![r].response = Response(200, "", req[r].response.data)]
    /\ UNCHANGED <<bookings, promo_codes, now, pv, ui>>

\* What the store client reports when the call itself fails (network, timeout).
StoreUnavailable == "store unavailable"

\* The slot select when the call fails: slotError is set, answered as not found.
ReadSlotFault(r) ==
    /\ req[r].pc = "select"
    /\ req' = [req EXCEPT ![r].pc = "done",
                          ![r].response = Response(404, "Slot not found", {})]
    /\ UNCHANGED <<slots, bookings, promo_codes, now, pv, ui>>

\* The bookings insert when the call fails: bookingError is thrown, nothing is written.
InsertBookingFault(r) ==
    /\ req[r].pc = "insert"
    /\ req' = [req EXCEPT ![r].pc = "done", ![r].inserts = @ + 1,
                          ![r].response = Response(500, StoreUnavailable, {})]
    /\ UNCHANGED <<slots, bookings, promo_codes, now, pv, ui>>

\* The slots update when the call fails: updateError is thrown, nothing is written.
UpdateSlotFault(r) ==
    /\ req[r].pc = "update"
    /\ req' = [req EXCEPT ![r].pc = "done",
                          ![r].response = Response(500, StoreUnavailable, {})]
    /\ UNCHANGED <<slots, bookings, promo_codes, now, pv, ui>>

----------------------------------------------------------------------------
(* The pages: ExperienceDetails and Checkout *)

RECURSIVE trimStart(_)
trimStart(s) == IF s # <<>> /\ s[1] = " " THEN trimStart(Tail(s)) ELSE s

RECURSIVE trimEnd(_)
trimEnd(s) == IF s # <<>> /\ s[Len(s)] = " " THEN trimEnd(SubSeq(s, 1, Len(s) - 1)) ELSE s

\* String.prototype.trim on a sequence of characters.
trim(s) == trimEnd(trimStart(s))

\* What the user types into the promo code field.
TypedCodes == {NoCode, <<" ">>, save10, FLAT100, BOGUS}

EmptyForm == [name |-> "", email |-> "", phone |-> ""]

\* What the user types into the form: nothing, a complete form, a malformed email.
FormInputs ==
    { EmptyForm,
      [name |-> "Ann", email |-> "ann@example.com", phone |-> "5550100100"],
      [name |-> "Ann", email |-> "ann", phone |-> "5550100100"] }

\* validateForm(): the three fields present, email and phone matching their patterns.
validateForm(formData) ==
    /\ formData.name # ""
    /\ formData.email = "ann@example.com"
    /\ formData.phone = "5550100100"

NoData == [experience |-> "", slot |-> NoSlot, numGuests |-> 0, baseAmount |-> 0]

\* No page open.
IdleUi ==
    [page |-> "none", experience |-> "", selectedSlot |-> <<>>, numGuests |-> 1,
     data |-> NoData, formData |-> EmptyForm,
     promoCode |-> NoCode, discount |-> 0, promoError |-> "",
     promoApplied |-> FALSE, validatingPromo |-> FALSE, submitting |-> FALSE,
     inflight |-> <<>>, submitted |-> <<>>, log |-> {},
     validated |-> <<>>]   \* the code sent in the call whose response set discount

\* ExperienceDetails mounted for experience e, loadExperience resolved.
DetailsUi(e) == [IdleUi EXCEPT !.page = "details", !.experience = e]

\* const availableSlots = selectedSlot ? selectedSlot.capacity - selectedSlot.booked : 0
availableSlots(selectedSlot) ==
    IF selectedSlot # <<>> THEN selectedSlot[1].capacity - selectedSlot[1].booked ELSE 0

\* onClick={() => !isFull && setSelectedSlot(slot)} on a slot button of the experience.
ClickSlot(s) ==
    /\ ui.page = "details"
    /\ slots[s].experience_id = ui.experience
    /\ LET slot == CHOOSE x \in SelectSlot(slots, s) : TRUE
           isFull == slot.capacity - slot.booked = 0 IN
       /\ ~isFull
       /\ ui' = [ui EXCEPT !.selectedSlot = Some(slot)]
    /\ UNCHANGED <<slots, bookings, req, promo_codes, now, pv>>

\* The + button: disabled={selectedSlot ? numGuests >= availableSlots : false}
ClickPlus ==
    /\ ui.page = "details"
    /\ ui.numGuests < MaxGuests
    /\ ~(ui.selectedSlot # <<>> /\ ui.numGuests >= availableSlots(ui.selectedSlot))
    /\ ui' = [ui EXCEPT !.numGuests = @ + 1]
    /\ UNCHANGED <<slots, bookings, req, promo_codes, now, pv>>

\* The - button: disabled={numGuests <= 1}, setNumGuests(Math.max(1, numGuests - 1))
ClickMinus ==
    /\ ui.page = "details"
    /\ ~(ui.numGuests <= 1)
    /\ ui' = [ui EXCEPT !.numGuests = IF @ - 1 > 1 THEN @ - 1 ELSE 1]
    /\ UNCHANGED <<slots, bookings, req, promo_codes, now, pv>>

\* handleBooking: navigate('/checkout', { state: bookingData }); Checkout mounts.
handleBooking ==
    /\ ui.page = "details"
    /\ ui.selectedSlot # <<>>
    /\ ui' = [ui EXCEPT !.page = "checkout",
                        !.data = [experience |-> ui.experience,
                                  slot       |-> ui.selectedSlot[1],
                                  numGuests  |-> ui.numGuests,
                                  baseAmount |-> experiences[ui.experience].price * ui.numGuests]]
    /\ UNCHANGED <<slots, bookings, req, promo_codes, now, pv>>

\* onChange of a form field.
TypeForm(formData) ==
    /\ ui.page = "checkout"
    /\ ui.formData # formData
    /\ ui' = [ui EXCEPT !.formData = formData]
    /\ UNCHANGED <<slots, bookings, req, promo_codes, now, pv>>

\* onChange={(e) => setPromoCode(e.target.value.toUpperCase())}, disabled={promoApplied}
TypePromoCode(typed) ==
    /\ ui.page = "checkout"
    /\ ~ui.promoApplied
    /\ ui' = [ui EXCEPT !.promoCode = toUpperCase(typed)]
    /\ UNCHANGED <<slots, bookings, req, promo_codes, now, pv>>

\* The suggested-code buttons, shown while no promo is applied.
ClickSuggestedCode(code) ==
    /\ ui.page = "checkout"
    /\ ~ui.promoApplied
    /\ code \in {SAVE10, FLAT100}
    /\ ui' = [ui EXCEPT !.promoCode = code]
    /\ UNCHANGED <<slots, bookings, req, promo_codes, now, pv>>

\* handleApplyPromo up to the await: the Apply button is shown while no promo is
\* applied and disabled while validating or when the code is blank.
handleApplyPromo ==
    /\ ui.page = "checkout"
    /\ ~ui.promoApplied
    /\ ~(ui.validatingPromo \/ trim(ui.promoCode) = NoCode)
    /\ ui' = [ui EXCEPT !.validatingPromo = TRUE,
                        !.promoError = "",
                        !.inflight = Some([code   |-> toUpperCase(ui.promoCode),
                                           amount |-> ui.data.baseAmount])]
    /\ UNCHANGED <<slots, bookings, req, promo_codes, now, pv>>

\* handleApplyPromo after the await: the response of promo-validate.
ApplyPromoResponse ==
    /\ ui.page = "checkout"
    /\ ui.inflight # <<>>
    /\ LET result == validatePromo(promo_codes, now, ui.inflight[1].code,
                                   Some(ui.inflight[1].amount)) IN
       IF result.valid = Some(TRUE) /\ ~Falsy(result.discount)
       THEN ui' = [ui EXCEPT !.discount = result.discount[1],
                             !.promoApplied = TRUE,
                             !.promoError = "",
                             !.validatingPromo = FALSE,
                             !.inflight = <<>>,
                             !.validated = Some(ui.inflight[1].code),
                             !.log = @ \cup {"applied"}]
       ELSE ui' = [ui EXCEPT !.promoError = IF result.error # "" THEN result.error
                                            ELSE "Invalid promo code",
                             !.discount = 0,
                             !.promoApplied = FALSE,
                             !.validated = <<>>,
                             !.validatingPromo = FALSE,
                             !.inflight = <<>>,
                             !.log = @ \cup {"rejected"}]
    /\ UNCHANGED <<slots, bookings, req, promo_codes, now, pv>>

\* handleApplyPromo after the await: the fetch failed, the catch block runs.
ApplyPromoError ==
    /\ ui.page = "checkout"
    /\ ui.inflight # <<>>
    /\ ui' = [ui EXCEPT !.promoError = "Error validating promo code",
                        !.discount = 0,
                        !.promoApplied = FALSE,
                        !.validated = <<>>,
                        !.validatingPromo = FALSE,
                        !.inflight = <<>>,
                        !.log = @ \cup {"errored"}]
    /\ UNCHANGED <<slots, bookings, req, promo_codes, now, pv>>

\* handleRemovePromo without setDiscount(0).
handleRemovePromoKeepsDiscount ==
    /\ ui.page = "checkout"
    /\ ui.promoApplied
    /\ ui' = [ui EXCEPT !.promoCode = NoCode,
                        !.promoApplied = FALSE,
                        !.promoError = "",
                        !.log = @ \cup {"removed"}]
    /\ UNCHANGED <<slots, bookings, req, promo_codes, now, pv>>

\* handleRemovePromo: the Remove button is shown while a promo is applied.
handleRemovePromo ==
    /\ ui.page = "checkout"
    /\ ui.promoApplied
    /\ ui' = [ui EXCEPT !.promoCode = NoCode,
                        !.discount = 0,
                        !.promoApplied = FALSE,
                        !.validated = <<>>,
                        !.promoError = "",
                        !.log = @ \cup {"removed"}]
    /\ UNCHANGED <<slots, bookings, req, promo_codes, now, pv>>

\* The object handleSubmit hands to api.createBooking; promoCode is the applied
\* code (whatever the field holds by then) or undefined.
SubmittedBody ==
    [experienceId   |-> ui.data.experience,
     slotId         |-> ui.data.slot.id,
     customerName   |-> ui.formData.name,
     customerEmail  |-> ui.formData.email,
     customerPhone  |-> ui.formData.phone,
     numGuests      |-> Some(ui.data.numGuests),
     baseAmount     |-> Some(ui.data.baseAmount),
     discountAmount |-> Some(ui.discount),
     finalAmount    |-> Some(ui.data.baseAmount - ui.discount),
     promoCode      |-> IF ui.promoApplied THEN Some(toUpperCase(ui.promoCode)) ELSE Null]

\* handleSubmit up to the await: a form that fails validateForm submits nothing.
handleSubmit ==
    /\ ui.page = "checkout"
    /\ ~ui.submitting
    /\ validateForm(ui.formData)
    /\ ui' = [ui EXCEPT !.submitting = TRUE, !.submitted = Some(SubmittedBody)]
    /\ UNCHANGED <<slots, bookings, req, promo_codes, now, pv>>

\* handleSubmit after the await: navigate('/result', ...), Checkout unmounts.
SubmitSettled ==
    /\ ui.page = "checkout"
    /\ ui.submitting
    /\ ui' = [ui EXCEPT !.page = "result", !.submitting = FALSE, !.inflight = <<>>]
    /\ UNCHANGED <<slots, bookings, req, promo_codes, now, pv>>

----------------------------------------------------------------------------
(* Specifications *)

\* The store as migrated, no request received yet.
Init ==
    /\ slots = InitSlots
    /\ bookings = {}
    /\ req = [r \in Reqs |-> IdleReq]
    /\ promo_codes = SeedPromos
    /\ now = 1
    /\ pv = IdlePv
    /\ ui = IdleUi

\* Concurrent createBooking requests.
Next ==
    \/ \E r \in Reqs, body \in ConcurrentBodies : Start(r, body)
    \/ \E r \in Reqs : ReadSlot(r)
    \/ \E r \in Reqs : InsertBooking(r)
    \/ \E r \in Reqs : UpdateSlot(r)

Spec == Init /\ [][Next]_vars

InFlight(r) == req[r].pc \notin {"idle", "done"}

\* createBooking requests one at a time: a request is received only when no
\* other is in flight.
NextSeq ==
    \/ \E r \in Reqs, body \in Bodies :
          /\ r <= NumSeq
          /\ \A q \in Reqs : ~InFlight(q)
          /\ Start(r, body)
    \/ \E r \in Reqs : ReadSlot(r)
    \/ \E r \in Reqs : InsertBooking(r)
    \/ \E r \in Reqs : UpdateSlot(r)

SpecSeq == Init /\ [][NextSeq]_vars

\* One promo-validate request at any time, for any code and amount, against a
\* table of one row; a percentage of the amount is a whole number.
InitPromo ==
    /\ slots = InitSlots
    /\ bookings = {}
    /\ req = [r \in Reqs |-> IdleReq]
    /\ promo_codes \in {SeedPromos} \cup {{p} : p \in PromoRows}
    /\ now \in Times
    /\ pv = IdlePv
    /\ ui = IdleUi

NextPromo ==
    \E code \in Codes, amount \in Amounts : PromoValidate(code, amount)

SpecPromo == InitPromo /\ [][NextPromo]_vars

\* One visitor: the details page of an experience, then its checkout page.
InitUi ==
    /\ slots = InitSlots
    /\ bookings = {}
    /\ req = [r \in Reqs |-> IdleReq]
    /\ promo_codes = SeedPromos
    /\ now = 1
    /\ pv = IdlePv
    /\ ui \in {DetailsUi(e) : e \in ExperienceIds}

NextUi ==
    \/ \E s \in SlotIds : ClickSlot(s)
    \/ ClickPlus
    \/ ClickMinus
    \/ handleBooking
    \/ \E formData \in FormInputs : TypeForm(formData)
    \/ \E typed \in TypedCodes : TypePromoCode(typed)
    \/ \E code \in {SAVE10, FLAT100} : ClickSuggestedCode(code)
    \/ handleApplyPromo
    \/ ApplyPromoResponse
    \/ ApplyPromoError
    \/ handleRemovePromo
    \/ handleSubmit
    \/ SubmitSettled

SpecUi == InitUi /\ [][NextUi]_vars

\* Concurrent createBooking requests against a store whose calls may fail.
NextFault ==
    \/ \E r \in Reqs, body \in ConcurrentBodies : r <= NumFault /\ Start(r, body)
    \/ \E r \in Reqs : ReadSlot(r)
    \/ \E r \in Reqs : ReadSlotFault(r)
    \/ \E r \in Reqs : InsertBooking(r)
    \/ \E r \in Reqs : InsertBookingFault(r)
    \/ \E r \in Reqs : UpdateSlot(r)
    \/ \E r \in Reqs : UpdateSlotFault(r)

SpecFault == Init /\ [][NextFault]_vars

\* The next step of the handler of request r, whatever the store answers.
Step(r) ==
    \/ ReadSlot(r)
    \/ ReadSlotFault(r)
    \/ InsertBooking(r)
    \/ InsertBookingFault(r)
    \/ UpdateSlot(r)
    \/ UpdateSlotFault(r)

\* Every awaited store call settles, with data or with an error, and the
\* runtime then resumes the handler: each handler in flight takes its next step.
SpecFair == SpecFault /\ \A r \in 1..NumFault : WF_vars(Step(r))

----------------------------------------------------------------------------
(* Properties of createBooking under concurrency *)

RECURSIVE SumGuests(_)
\* The sum of num_guests over a set of booking rows.
SumGuests(rows) ==
    IF rows = {} THEN 0
    ELSE LET b == CHOOSE x \in rows : TRUE IN b.num_guests + SumGuests(rows \ {b})

BookingsOf(s) == {b \in bookings : b.slot_id = s}

Succeeded(r) == req[r].pc = "done" /\ req[r].response.status = 200

RejectedForCapacity(r) ==
    /\ req[r].pc = "done"
    /\ req[r].response.status = 400
    /\ req[r].response.error = "Not enough capacity available"

Failed(r) == req[r].pc = "done" /\ req[r].response.status # 200

AllDone == \A r \in Reqs : req[r].pc = "done"

Quiescent == \A r \in Reqs : ~InFlight(r)

\* C1: in every reachable state of the store, under every interleaving of
\* concurrent createBooking requests, every slot has 0 <= booked <= capacity.
BookedWithinCapacity ==
    \A s \in SlotIds : 0 <= slots[s].booked /\ slots[s].booked <= slots[s].capacity

\* Two requests for the same slot read the same booked value and both completed.
BookedWithinCapacityWitness ==
    \E r1, r2 \in Reqs :
        /\ r1 # r2
        /\ Succeeded(r1) /\ Succeeded(r2)
        /\ req[r1].body.slotId = req[r2].body.slotId
        /\ req[r1].slot.booked = req[r2].slot.booked
        /\ slots[req[r1].body.slotId].booked > InitSlots[req[r1].body.slotId].booked

\* C2: overbooking never happens: for every slot, in every reachable state, the
\* initial booked plus the guests of all persisted bookings of the slot is at
\* most the capacity.
NoOverbooking ==
    \A s \in SlotIds : InitSlots[s].booked + SumGuests(BookingsOf(s)) <= slots[s].capacity

\* The requests that generated a reference drew pairwise distinct ones.
DistinctReferences ==
    \A r1, r2 \in Reqs :
        (r1 # r2 /\ req[r1].bookingReference # <<>>)
            => req[r1].bookingReference # req[r2].bookingReference

\* C3: when N concurrent requests of 1 guest each target a slot with booked = 0
\* and capacity C < N, exactly C complete successfully, exactly N - C are
\* rejected, and the final booked is C (stated for the runs in which no two
\* requests drew the same booking reference).
ExactlyCapacitySucceed ==
    (/\ AllDone
     /\ DistinctReferences
     /\ \A r \in Reqs : req[r].body = ClientBody("s1", 1, NoCode, 0)
     /\ InitSlots["s1"].booked = 0
     /\ InitSlots["s1"].capacity < NumReqs)
    => /\ Cardinality({r \in Reqs : Succeeded(r)}) = InitSlots["s1"].capacity
       /\ Cardinality({r \in Reqs : Failed(r)}) = NumReqs - InitSlots["s1"].capacity
       /\ slots["s1"].booked = InitSlots["s1"].capacity

RECURSIVE SumSucceeded(_, _)
\* The guests of the requests of rs that returned success for slot s.
SumSucceeded(rs, s) ==
    IF rs = {} THEN 0
    ELSE LET r == CHOOSE x \in rs : TRUE IN
         (IF Succeeded(r) /\ req[r].body.slotId = s THEN Val(req[r].body.numGuests) ELSE 0)
         + SumSucceeded(rs \ {r}, s)

\* C4: no increment is lost: once no request is in flight, every slot's booked is
\* its initial booked plus the guests of the requests that returned success for it.
NoLostIncrement ==
    Quiescent => \A s \in SlotIds : slots[s].booked = InitSlots[s].booked + SumSucceeded(Reqs, s)

----------------------------------------------------------------------------
(* Properties of createBooking, one request at a time *)

----------------------------------------------------------------------------
(* Properties of the persisted amounts *)

\* experience.price * numGuests for a booking row, when its experience exists.
ServerBaseAmount(b) == experiences[b.experience_id].price * b.num_guests

\* C6: the persisted amounts do not depend on the monetary fields of the request
\* body: every persisted base_amount is experience.price * num_guests.
PersistedBaseIsServerComputed ==
    \A b \in bookings : b.base_amount = Some(ServerBaseAmount(b))

\* C7: createBooking re-validates a supplied promo code: every persisted booking
\* that carries a promo code carries one the promo validator accepts for the
\* server-computed base amount.
PersistedPromoIsValid ==
    \A b \in bookings :
        b.promo_code # NoCode =>
            validatePromo(promo_codes, now, b.promo_code, Some(ServerBaseAmount(b))).valid
                = Some(TRUE)

\* C8: every persisted booking has final_amount = base_amount - discount_amount
\* with 0 <= discount_amount <= base_amount, so final_amount is never negative.
PersistedAmountsConsistent ==
    \A b \in bookings :
        /\ b.final_amount[1] = b.base_amount[1] - b.discount_amount
        /\ 0 <= b.discount_amount
        /\ b.discount_amount <= b.base_amount[1]
        /\ b.final_amount[1] >= 0

----------------------------------------------------------------------------
(* Properties of validatePromo *)

PromoAccepted == pv.pc = "done" /\ pv.response.valid = Some(TRUE)

\* The row the accepted request found.
PromoFound == CHOOSE p \in SelectPromo(promo_codes, pv.code) : TRUE

\* C9 as stated: every valid result has 0 <= discount <= amount and
\* finalAmount = amount - discount >= 0, for every promo row and every amount.
DiscountBetweenZeroAndAmount ==
    PromoAccepted =>
        /\ 0 <= pv.response.discount[1]
        /\ pv.response.discount[1] <= pv.amount[1]
        /\ pv.response.finalAmount[1] = pv.amount[1] - pv.response.discount[1]
        /\ pv.response.finalAmount[1] >= 0

\* No negative number among the amount and the row's discount_value and max_discount.
NonNegativeInputs ==
    /\ pv.amount[1] >= 0
    /\ PromoFound.discount_value >= 0
    /\ (PromoFound.max_discount = Null \/ PromoFound.max_discount[1] >= 0)

\* C9 as amended: every valid result has discount <= amount and
\* finalAmount = amount - discount >= 0, for every promo row and every amount;
\* and 0 <= discount when none of the amount, discount_value and max_discount is
\* negative.
DiscountAtMostAmount ==
    PromoAccepted =>
        /\ pv.response.discount[1] <= pv.amount[1]
        /\ pv.response.finalAmount[1] = pv.amount[1] - pv.response.discount[1]
        /\ pv.response.finalAmount[1] >= 0
        /\ NonNegativeInputs => 0 <= pv.response.discount[1]

\* A fixed promo of value 500 on amount 100: discount 100, final 0.
DiscountAtMostAmountWitness ==
    /\ PromoAccepted
    /\ PromoFound.discount_type = "fixed" /\ PromoFound.discount_value = 500
    /\ pv.amount = Some(100)
    /\ pv.response.discount = Some(100)
    /\ pv.response.finalAmount = Some(0)

\* C10: for an accepted percentage promo the discount is
\* amount * discount_value / 100, reduced to max_discount whenever max_discount
\* is set and the computed discount exceeds it, then limited to amount.
PercentageDiscount ==
    (PromoAccepted /\ PromoFound.discount_type = "percentage") =>
        LET computed == (pv.amount[1] * PromoFound.discount_value) \div 100
            capped   == IF PromoFound.max_discount # Null /\ computed > PromoFound.max_discount[1]
                        THEN PromoFound.max_discount[1]
                        ELSE computed
        IN pv.response.discount[1] = Min(capped, pv.amount[1])


\* C11: for an accepted fixed promo the discount is min(discount_value, amount),
\* whatever max_discount is.
FixedDiscount ==
    (PromoAccepted /\ PromoFound.discount_type = "fixed") =>
        pv.response.discount[1] = Min(PromoFound.discount_value, pv.amount[1])

\* A fixed promo of value 100 with max_discount 5 on amount 200: discount 100.
FixedDiscountWitness ==
    /\ PromoAccepted
    /\ PromoFound.discount_type = "fixed" /\ PromoFound.discount_value = 100
    /\ PromoFound.max_discount = Some(5)
    /\ pv.amount = Some(200)
    /\ pv.response.discount = Some(100)

\* The request passed the required-field check, so the handler did its lookup.
PromoLookedUp == pv.pc = "done" /\ pv.code # NoCode /\ ~Falsy(pv.amount)

\* The lookup found an active row.
PromoWasFound == PromoLookedUp /\ Cardinality(SelectPromo(promo_codes, pv.code)) = 1

OutsideWindow(promo) == now < promo.valid_from \/ now > promo.valid_until

\* C13: whenever the active promo found has now < valid_from or now > valid_until,
\* the result is valid = false with the expiration error, whatever amount and
\* min_amount are: the window is checked before the minimum.
ExpiredBeforeMinimum ==
    (PromoWasFound /\ OutsideWindow(PromoFound)) =>
        /\ pv.response.valid = Some(FALSE)
        /\ pv.response.error = "Promo code has expired"
        /\ pv.response.errorValue = Null
        /\ pv.response.discount = Null

\* An expired promo with minimum 200, asked for amount 100: the answer is the
\* expiration, not the minimum.
ExpiredBeforeMinimumWitness ==
    /\ PromoWasFound
    /\ now > PromoFound.valid_until
    /\ PromoFound.min_amount = Some(200)
    /\ pv.amount = Some(100)
    /\ pv.response.error = "Promo code has expired"

BelowMinimumResponse ==
    /\ pv.response.valid = Some(FALSE)
    /\ pv.response.error = "Minimum purchase of $ required"
    /\ pv.response.errorValue = PromoFound.min_amount

\* C14: for an active, in-window promo with min_amount set, the result is
\* valid = false with an error naming min_amount exactly when amount < min_amount;
\* an amount equal to min_amount is accepted.
MinimumAmountEnforced ==
    (PromoWasFound /\ ~OutsideWindow(PromoFound) /\ PromoFound.min_amount # Null) =>
        /\ BelowMinimumResponse <=> pv.amount[1] < PromoFound.min_amount[1]
        /\ pv.amount[1] >= PromoFound.min_amount[1] => pv.response.valid = Some(TRUE)

\* Some active row's code equals the code sent, letter case ignored.
ActiveRowIgnoringCase ==
    \E p \in promo_codes : p.is_active /\ toUpperCase(p.code) = toUpperCase(pv.code)

NotFoundResponse ==
    /\ pv.response.valid = Some(FALSE)
    /\ pv.response.error = "Invalid promo code"
    /\ pv.response.discount = Null

\* C15: validatePromo finds a promo exactly when an active row exists whose code
\* equals the input code ignoring letter case; otherwise it answers valid = false
\* with the not-found error and no discount.
LookupIgnoresCase ==
    PromoLookedUp => (NotFoundResponse <=> ~ActiveRowIgnoringCase)


----------------------------------------------------------------------------
(* Properties of booking references and of the rejections *)

CharSet == {chars[k] : k \in 1..Len(chars)}

\* 'BK' followed by exactly 8 characters of A-Z and 0-9.
ReferenceFormat(ref) ==
    /\ Len(ref) = 2 + RefLength
    /\ ref[1] = "B" /\ ref[2] = "K"
    /\ \A i \in 3..Len(ref) : ref[i] \in CharSet

\* C16: every persisted booking's booking_reference is 'BK' followed by exactly 8
\* characters of A-Z and 0-9, and no two persisted bookings share a reference.
ReferencesWellFormedAndUnique ==
    /\ \A b \in bookings : ReferenceFormat(b.booking_reference)
    /\ \A b1, b2 \in bookings :
          b1.id # b2.id => b1.booking_reference # b2.booking_reference

DuplicateKey(r) ==
    /\ req[r].pc = "done"
    /\ req[r].response.error = "duplicate key value violates unique constraint"

\* Two bookings are persisted and a third request drew a reference already taken.
ReferencesWellFormedAndUniqueWitness ==
    /\ Cardinality(bookings) >= 2
    /\ \E r \in Reqs : DuplicateKey(r)

\* C17: on a reference collision createBooking regenerates the reference and
\* retries the insert, up to 5 attempts: it fails for the collision only after
\* the fifth insert.
RetriesOnCollision ==
    \A r \in Reqs : DuplicateKey(r) => req[r].inserts = 5

\* A body lacking a required field, or with numGuests missing, zero or negative.
InvalidRequest(body) ==
    \/ FalsyStr(body.experienceId)
    \/ FalsyStr(body.slotId)
    \/ FalsyStr(body.customerName)
    \/ FalsyStr(body.customerEmail)
    \/ FalsyStr(body.customerPhone)
    \/ body.numGuests = Null
    \/ body.numGuests[1] <= 0

\* C18: every request lacking a required field, or whose numGuests is missing or
\* not greater than 0, is rejected with status 400 before any read or write of
\* the store.
RejectsInvalidRequests ==
    \A r \in Reqs :
        (req[r].pc # "idle" /\ InvalidRequest(req[r].body)) =>
            /\ req[r].pc = "done"
            /\ req[r].response.status = 400
            /\ req[r].response.error = "Missing required fields"
            /\ req[r].slot = NoSlot
            /\ req[r].inserts = 0

NotFound(r) ==
    /\ req[r].pc = "done"
    /\ req[r].response.status = 404
    /\ req[r].response.error = "Slot not found"

\* C19: a request whose slotId has no slot row fails with 404; none of its steps
\* inserts a booking or changes a slot.
UnknownSlotNotFound ==
    [][\A r \in Reqs :
        (/\ req'[r] # req[r]
         /\ ~MissingRequiredFields(req'[r].body)
         /\ req'[r].body.slotId \notin SlotIds) =>
            /\ slots' = slots
            /\ bookings' = bookings
            /\ req'[r].pc \in {"select", "done"}
            /\ req'[r].pc = "done" => NotFound(r)'
      ]_vars

\* A booking is persisted, and a request for a slot id of no row was answered 404.
UnknownSlotNotFoundWitness ==
    /\ bookings # {}
    /\ \E r \in Reqs : NotFound(r) /\ req[r].body.slotId \notin SlotIds

\* C20: the capacity rejection reports the exact number of remaining spots,
\* capacity - booked, of the slot as the request read it.
CapacityErrorReportsRemaining ==
    \A r \in Reqs :
        RejectedForCapacity(r) =>
            req[r].response.errorValue = Some(req[r].slot.capacity - req[r].slot.booked)

----------------------------------------------------------------------------
(* Properties of the pages *)

\* C12: with no promo applied, the amounts the booking flow submits are
\* base = experience.price * numGuests, discount = 0 and final = base, with
\* numGuests >= 1, also after a promo was applied and removed and after a
\* rejected or failed validation.
NoPromoAmounts ==
    (ui.submitted # <<>> /\ ui.submitted[1].promoCode = Null) =>
        LET body == ui.submitted[1] IN
        /\ body.numGuests[1] >= 1
        /\ body.baseAmount = Some(experiences[body.experienceId].price * body.numGuests[1])
        /\ body.discountAmount = Some(0)
        /\ body.finalAmount = body.baseAmount

\* Submitted without a promo after one was applied and removed, another
\* validation was rejected and another failed.
NoPromoAmountsWitness ==
    /\ ui.submitted # <<>>
    /\ ui.submitted[1].promoCode = Null
    /\ {"applied", "removed", "rejected", "errored"} \subseteq ui.log
    /\ ui.submitted[1].numGuests[1] > 1

----------------------------------------------------------------------------
(* Properties of the booking rows and the booked counter *)

\* C21: every booking row createBooking persists has status 'confirmed', and
\* no step modifies or deletes a row that exists.
OnlyConfirmedNeverMutated ==
    [][ /\ \A b \in bookings' : b.status = "confirmed"
        /\ bookings \subseteq bookings' ]_vars

\* A row is inserted while another row exists.
OnlyConfirmedNeverMutatedWitness ==
    \E b, c \in bookings : b.id # c.id

\* C22: no step of any interleaving of createBooking requests decreases a
\* slot's booked value.
BookedNeverDecreases ==
    [][ \A s \in SlotIds : slots'[s].booked >= slots[s].booked ]_vars

\* C24: the slot's capacity is reserved before the booking row is written: in
\* no reachable state does a booking row exist whose guests have not been added
\* to its slot's booked.
ReservedBeforeWritten ==
    \A s \in SlotIds : SumGuests(BookingsOf(s)) <= slots[s].booked - InitSlots[s].booked

\* C30: every persisted booking's experience_id is the experience_id of the
\* slot its slot_id references.
BookingExperienceIsSlotExperience ==
    \A b \in bookings : b.experience_id = slots[b.slot_id].experience_id

----------------------------------------------------------------------------
(* Properties of the pages, continued *)

\* C23: whenever the details page has proceeded to checkout, numGuests is at
\* least 1 and at most the remaining spots of the selected slot as loaded.
GuestsWithinRemaining ==
    ui.page = "checkout" =>
        /\ 1 <= ui.data.numGuests
        /\ ui.data.numGuests <= ui.data.slot.capacity - ui.data.slot.booked

\* C29: whenever a promo is marked applied, the code held in the form is the
\* code sent in the validation call whose response set the discount.
PromoFromSameValidation ==
    ui.promoApplied => ui.validated = Some(toUpperCase(ui.promoCode))

----------------------------------------------------------------------------
(* Properties of createBooking when it fails *)

RowsOf(r) == {b \in bookings : b.id = r}

\* C25: a booking row exists exactly for the requests that returned success:
\* a request that returned an error leaves no row, a success leaves exactly one.
RowsExactlyForSuccesses ==
    \A r \in Reqs :
        /\ Failed(r) => RowsOf(r) = {}
        /\ Succeeded(r) => Cardinality(RowsOf(r)) = 1

FailsNow(r) ==
    /\ req[r].pc # "done"
    /\ req'[r].pc = "done"
    /\ req'[r].response.status # 200

\* C26: no failure of createBooking (on the insert, on the booked update, on
\* a reference conflict) leaves booked increased without booking rows for as
\* many guests: the failing step writes no slot, and booked never exceeds its
\* initial value plus the guests of the persisted rows.
NoReservationWithoutRow ==
    [][ /\ \A r \in Reqs : FailsNow(r) => slots' = slots
        /\ \A s \in SlotIds :
              slots'[s].booked - InitSlots[s].booked <= SumGuests({b \in bookings' : b.slot_id = s})
      ]_vars

\* One request failed on the booked update, another on the insert.
NoReservationWithoutRowWitness ==
    \E r, q \in Reqs :
        /\ Failed(r) /\ req[r].response.status = 500 /\ RowsOf(r) # {}
        /\ Failed(q) /\ req[q].response.status = 500 /\ RowsOf(q) = {} /\ req[q].inserts = 1

\* C27: a request rejected for insufficient capacity fails closed: the
\* rejecting step writes neither table, and the request has attempted no insert
\* and has no booking row.
CapacityRejectionFailsClosed ==
    [][ \A r \in Reqs :
          (/\ req'[r].pc = "done"
           /\ req'[r].response.status = 400
           /\ req'[r].response.error = "Not enough capacity available")
          => /\ req'[r].inserts = 0
             /\ \A b \in bookings' : b.id # r
             /\ (req[r].pc # "done" => slots' = slots /\ bookings' = bookings)
      ]_vars

\* A request is rejected for capacity after another filled the slot.
CapacityRejectionFailsClosedWitness ==
    \E r, q \in Reqs :
        /\ RejectedForCapacity(r)
        /\ Succeeded(q)
        /\ slots[req[q].body.slotId].booked = slots[req[q].body.slotId].capacity

\* C28: every createBooking attempt reaches a response in finitely many steps
\* (from some point on no request is in flight, and a request that has started
\* never returns to idle), its next step never waits on another request, it
\* holds an error only when it has ended, it takes no step after it has ended,
\* and the step that ends it in failure writes nothing to the store.
TerminatesOnFirstFailure ==
    /\ <>[]Quiescent
    /\ [](\A r \in Reqs : InFlight(r) => ENABLED Step(r))
    /\ [](\A r \in Reqs : req[r].response.status \notin {0, 200} => req[r].pc = "done")
    /\ [][ \A r \in Reqs :
             /\ req[r].pc = "done" => req'[r] = req[r]
             /\ req[r].pc # "idle" => req'[r].pc # "idle"
             /\ FailsNow(r) => slots' = slots /\ bookings' = bookings
         ]_vars

\* Every request has ended: one in success, one in a store failure.
TerminatesOnFirstFailureWitness ==
    /\ \A r \in Reqs : r <= NumFault => req[r].pc = "done"
    /\ \E r, q \in Reqs : Succeeded(r) /\ Failed(q) /\ req[q].response.error = StoreUnavailable

====
